---- MODULE Spec2Model ----
(***************************************************************************)
(* Model of the multi-server MCP client manager (MCPClientManager):        *)
(* connect / getAllTools / callTool / disconnect, driven by one            *)
(* single-threaded caller.  Strings are TLA+ strings; the JavaScript       *)
(* string operations the manager uses (indexOf, slice, includes, join,     *)
(* template concatenation) are computed character by character.            *)
(*                                                                         *)
(* Three specifications share the manager's actions:                       *)
(*   Spec          any caller of the manager's four operations             *)
(*   SpecRegistry  a caller that connects only descriptor lists produced   *)
(*                 by getEnabledServers                                    *)
(*   SpecRun       the `run` command (cmdRun) with the agent loop, and     *)
(*                 SpecRunFair, the same with the run always continuing    *)
(***************************************************************************)
EXTENDS Integers, Sequences, FiniteSets, TLC

VARIABLES
    githubOrgs,   \* MCPClientManager.githubOrgs, set by the constructor
    servers,      \* MCPClientManager.servers: sequence of ConnectedServer
    transports,   \* every StdioClientTransport created so far (the child processes)
    stderr,       \* lines written by log() and error()
    pc,           \* position of the caller: "idle", inside connect/disconnect,
                  \* or "returned" (an operation has just completed)
    entries,      \* argument of the running (or last) connect call
    idx,          \* loop index of the running connect / disconnect loop
    call,         \* locals and wire request of the callTool that just completed
    ret,          \* outcome of the operation that just completed
    run,          \* cmdRun: its position, inputs and what it has invoked
    agent         \* the agent loop: state, IterationCounter, Conversation

mgrVars == <<githubOrgs, servers, transports, stderr, pc, entries, idx, call, ret>>
runVars == <<run, agent>>
vars == <<githubOrgs, servers, transports, stderr, pc, entries, idx, call, ret,
          run, agent>>

(***************************************************************************)
(* Bounds                                                                  *)
(***************************************************************************)
MaxTransports == 3   \* descriptors attempted over all connect calls
MaxIterations == 3   \* N, the agent loop's maximum iterations

(***************************************************************************)
(* JavaScript string primitives                                            *)
(***************************************************************************)
\* s.slice(from, to) with 0-based indices; a negative index counts from the
\* end, and both are clamped to 0..s.length
SliceIndex(s, k) ==
    IF k < 0 THEN (IF Len(s) + k < 0 THEN 0 ELSE Len(s) + k)
    ELSE (IF k > Len(s) THEN Len(s) ELSE k)
Slice(s, from, to) == SubSeq(s, SliceIndex(s, from) + 1, SliceIndex(s, to))
SliceFrom(s, from) == Slice(s, from, Len(s))

\* positions (0-based) at which sub occurs in s
Occurrences(s, sub) ==
    { k \in 0..(Len(s) - Len(sub)) : SubSeq(s, k + 1, k + Len(sub)) = sub }

Min(S) == CHOOSE k \in S : \A j \in S : k <= j
Max(S) == CHOOSE k \in S : \A j \in S : k >= j

\* s.lastIndexOf(sub): last occurrence, -1 when absent
LastIndexOf(s, sub) ==
    IF Occurrences(s, sub) = {} THEN -1 ELSE Max(Occurrences(s, sub))

\* s.indexOf(sub): first occurrence, -1 when absent
IndexOf(s, sub) ==
    IF Occurrences(s, sub) = {} THEN -1 ELSE Min(Occurrences(s, sub))

\* s.includes(sub)
Includes(s, sub) == Occurrences(s, sub) # {}

\* parts.join(sepStr)
RECURSIVE Join(_, _)
Join(parts, sepStr) ==
    IF Len(parts) = 0 THEN ""
    ELSE IF Len(parts) = 1 THEN parts[1]
    ELSE parts[1] \o sepStr \o Join(Tail(parts), sepStr)

\* xss.flat() for a sequence of sequences
RECURSIVE Flatten(_)
Flatten(xss) ==
    IF Len(xss) = 0 THEN <<>> ELSE Head(xss) \o Flatten(Tail(xss))

(***************************************************************************)
(* Inputs                                                                  *)
(***************************************************************************)
\* ServerEntry.name of the descriptors handed to connect
ServerNames == {"github", "jira"}

\* server prefixes a caller may put in a tool name: the descriptors' names
\* and a name that is free of the separator but ends in an underscore
CallServers == ServerNames \cup {"a_"}

\* t.description of a discovered tool that has none
Undefined == "<undefined>"

\* result.tools of listTools(), per server process, in discovery order
RawTools(serverName) ==
    CASE serverName = "github" ->
           << [name |-> "search_issues", description |-> "Search issues"],
              [name |-> "create_issue", description |-> Undefined] >>
      [] serverName = "jira" ->
           << [name |-> "create_issue", description |-> "Create an issue"] >>
      [] OTHER ->
           << [name |-> "_x__y", description |-> Undefined] >>

\* raw tool names a caller may ask for
RawNames == {"search_issues", "create_issue", "_x__y"}

\* constructor argument githubOrgs
OrgLists == { <<>>, <<"acme", "west">> }

\* arguments objects a caller may pass to callTool (key -> value)
ArgsSet ==
    { [q |-> "bug"], [q |-> ""], [q |-> "org:acme bug"],
      [page |-> "2"], [q |-> "bug", page |-> "2"] }

\* the arguments object with no key
EmptyArgs == [k \in {} |-> ""]

\* all sequences over S of length at most n
SeqsUpTo(S, n) == UNION { [1..k -> S] : k \in 0..n }

(***************************************************************************)
(* connect: building the catalog of one server (lines 46-50)               *)
(***************************************************************************)
\* `${entry.name}__${t.name}`
QualifiedNameBare(serverName, rawName) == rawName
QualifiedName(serverName, rawName) == serverName \o "__" \o rawName

\* `[${entry.name}] ${t.description ?? t.name}`
Description(serverName, t) ==
    "[" \o serverName \o "] " \o
        (IF t.description = Undefined THEN t.name ELSE t.description)

\* result.tools.map(...) ; input_schema is carried through untouched and is
\* not represented
ToolsOf(serverName, rawTools) ==
    [k \in 1..Len(rawTools) |->
        [name |-> QualifiedName(serverName, rawTools[k].name),
         description |-> Description(serverName, rawTools[k])]]

(***************************************************************************)
(* getAllTools (lines 65-67)                                               *)
(***************************************************************************)
\* this.servers.flatMap((s) => s.tools)
AllToolsLastFirst(srv) ==
    Flatten([k \in 1..Len(srv) |-> srv[Len(srv) + 1 - k].tools])
AllTools(srv) == Flatten([k \in 1..Len(srv) |-> srv[k].tools])

(***************************************************************************)
(* callTool: parsing, lookup and the org rewrite (lines 73-93)             *)
(***************************************************************************)
Separator == "__"

\* name.indexOf("__")
SepLast(name) == LastIndexOf(name, Separator)
Sep(name) == IndexOf(name, Separator)

\* name.slice(0, sep) and name.slice(sep + 2)
ParsedServer(name) == Slice(name, 0, Sep(name))
ParsedTool(name) == SliceFrom(name, Sep(name) + 2)

\* the guard of line 74: the name holds no separator
NeverInvalid(name) == FALSE
InvalidName(name) == Sep(name) = -1

\* this.servers.find((s) => s.name === serverName): index of the first
\* match, 0 when there is none
FindServerOrFirst(srv, serverName) ==
    IF \E k \in 1..Len(srv) : srv[k].name = serverName
    THEN Min({ k \in 1..Len(srv) : srv[k].name = serverName })
    ELSE IF Len(srv) > 0 THEN 1 ELSE 0
FindServer(srv, serverName) ==
    IF \E k \in 1..Len(srv) : srv[k].name = serverName
    THEN Min({ k \in 1..Len(srv) : srv[k].name = serverName })
    ELSE 0

\* this.githubOrgs.map((o) => `org:${o}`).join(" ")
OrgFilterComma(orgs) == Join([k \in 1..Len(orgs) |-> "org:" \o orgs[k]], ",")
OrgFilter(orgs) == Join([k \in 1..Len(orgs) |-> "org:" \o orgs[k]], " ")

\* the guard `q && !q.includes("org:")` on args.q (undefined when absent)
NeedsScope(args) ==
    /\ "q" \in DOMAIN args
    /\ args["q"] # ""
    /\ ~Includes(args["q"], "org:")

\* the arguments object forwarded to the transport
RewriteArgs(serverName, toolName, orgs, args) ==
    IF serverName = "github" /\ toolName = "search_issues" /\ Len(orgs) > 0
       /\ NeedsScope(args)
    THEN [k \in DOMAIN args |->
            IF k = "q" THEN OrgFilter(orgs) \o " " \o args["q"] ELSE args[k]]
    ELSE args

\* the caller's own object after the call: `args = { ...args, q }` rebinds
\* the parameter to a fresh object, the caller's object is not written
CallerArgsInPlace(args, forwarded) == forwarded
CallerArgs(args, forwarded) == args

(***************************************************************************)
(* State                                                                   *)
(***************************************************************************)
\* call: the callTool that just completed.  name and args as passed, callerArgs the caller's object after
\* the call, serverName/toolName the parsed locals, tid the transport the
\* request went to (0: no request was sent), sentName/sentArgs the request
\* on the wire
CallFrame(name, args, callerArgs, serverName, toolName, tid, sentName, sentArgs) ==
    [name |-> name, args |-> args, callerArgs |-> callerArgs,
     serverName |-> serverName, toolName |-> toolName,
     tid |-> tid, sentName |-> sentName, sentArgs |-> sentArgs]

NoCall == CallFrame("", EmptyArgs, EmptyArgs, "", "", 0, "", EmptyArgs)

Ret(op, status, value) == [op |-> op, status |-> status, value |-> value]

\* no cmdRun in progress: the manager is driven by some other caller
NoRun ==
    [pc |-> "none", config |-> <<>>, connects |-> 0, disconnects |-> 0,
     fault |-> FALSE, report |-> "", reason |-> ""]

\* no agent loop in progress
NoAgent ==
    [state |-> "none", iteration |-> 0, conversation |-> <<>>,
     pending |-> <<>>, lastText |-> "", result |-> "", reason |-> ""]

Init ==
    /\ githubOrgs \in OrgLists
    /\ servers = <<>>
    /\ transports = <<>>
    /\ stderr = <<>>
    /\ pc = "idle"
    /\ entries = <<>>
    /\ idx = 0
    /\ call = NoCall
    /\ ret = Ret("none", "ok", <<>>)
    /\ run = NoRun
    /\ agent = NoAgent

LogLine(kind, serverName, n) == [kind |-> kind, name |-> serverName, n |-> n]

\* new StdioClientTransport(...): the child process of one descriptor
NewTransport(serverName) ==
    [name |-> serverName, state |-> "new", listed |-> "none",
     closes |-> 0]

(***************************************************************************)
(* connect (lines 27-63), one step per suspension point                    *)
(***************************************************************************)
\* the caller invokes connect(entries)
Connect(es) ==
    /\ pc = "idle"
    /\ Len(transports) + Len(es) <= MaxTransports
    /\ entries' = es
    /\ idx' = 1
    /\ pc' = "connect_loop"
    /\ UNCHANGED <<githubOrgs, servers, transports, stderr, call, ret>>

\* loop body up to `await client.connect(transport)` (lines 30-43)
ConnectStart ==
    /\ pc = "connect_loop"
    /\ idx <= Len(entries)
    /\ stderr' = Append(stderr, LogLine("connecting", entries[idx], 0))
    /\ transports' = Append(transports, NewTransport(entries[idx]))
    /\ pc' = "connect_await_start"
    /\ UNCHANGED <<githubOrgs, servers, entries, idx, call, ret>>

\* the catch block (lines 57-61): report, go on with the next descriptor
ConnectRethrow(serverName) ==
    /\ stderr' = stderr
    /\ pc' = "returned"
    /\ ret' = Ret("connect", "raised", <<>>)
    /\ UNCHANGED idx
ConnectCatch(serverName) ==
    /\ stderr' = Append(stderr, LogLine("failed", serverName, 0))
    /\ idx' = idx + 1
    /\ pc' = "connect_loop"
    /\ UNCHANGED ret

\* `await client.connect(transport)` settles (line 43)
ConnectStartedNoWait(ok) ==
    /\ pc = "connect_await_start"
    /\ transports' =
          [transports EXCEPT ![Len(transports)].state =
                                 IF ok THEN "open" ELSE "failed"]
    /\ idx' = idx + 1
    /\ pc' = "connect_loop"
    /\ UNCHANGED <<githubOrgs, servers, stderr, entries, call, ret>>
ConnectStarted(ok) ==
    /\ pc = "connect_await_start"
    /\ IF ok
       THEN /\ transports' =
                  [transports EXCEPT ![Len(transports)].state = "open"]
            /\ pc' = "connect_await_list"
            /\ UNCHANGED <<stderr, idx, ret>>
       ELSE /\ transports' =
                  [transports EXCEPT ![Len(transports)].state = "failed"]
            /\ ConnectCatch(entries[idx])
    /\ UNCHANGED <<githubOrgs, servers, entries, call>>

\* this.servers after `await client.listTools()` settled (lines 45-52):
\* the push happens only when discovery returned
ServersPushedAnyway(srv, serverName, tid, ok) ==
    Append(srv, [name |-> serverName, tid |-> tid,
                 tools |-> IF ok THEN ToolsOf(serverName, RawTools(serverName))
                           ELSE <<>>])
ServersAfterList(srv, serverName, tid, ok) ==
    IF ok
    THEN Append(srv, [name |-> serverName, tid |-> tid,
                      tools |-> ToolsOf(serverName, RawTools(serverName))])
    ELSE srv

\* `await client.listTools()` settles (lines 45-56)
ConnectListed(ok) ==
    /\ pc = "connect_await_list"
    /\ transports' =
          [transports EXCEPT ![Len(transports)].listed =
                                 IF ok THEN "ok" ELSE "fail"]
    /\ servers' = ServersAfterList(servers, entries[idx], Len(transports), ok)
    /\ IF ok
       THEN /\ stderr' = Append(stderr,
                  LogLine("available", entries[idx],
                          Len(RawTools(entries[idx]))))
            /\ idx' = idx + 1
            /\ pc' = "connect_loop"
            /\ UNCHANGED ret
       ELSE ConnectCatch(entries[idx])
    /\ UNCHANGED <<githubOrgs, entries, call>>

\* the loop is exhausted: connect returns (line 63)
ConnectReturn ==
    /\ pc = "connect_loop"
    /\ idx > Len(entries)
    /\ pc' = "returned"
    /\ ret' = Ret("connect", "ok", <<>>)
    /\ UNCHANGED <<githubOrgs, servers, transports, stderr, entries, idx, call>>

(***************************************************************************)
(* getAllTools (lines 65-67)                                               *)
(***************************************************************************)
GetAllTools ==
    /\ pc = "idle"
    /\ pc' = "returned"
    /\ ret' = Ret("getAllTools", "ok", AllTools(servers))
    /\ UNCHANGED <<githubOrgs, servers, transports, stderr, entries, idx, call>>

(***************************************************************************)
(* callTool (lines 69-103)                                                 *)
(***************************************************************************)
\* ok: whether the remote invocation `await server.client.callTool` resolves
CallTool(name, args, ok) ==
    /\ pc = "idle"
    /\ IF InvalidName(name)
       THEN \* throw new Error(`Invalid tool name: ${name}`)
            /\ ret' = Ret("callTool", "InvalidToolName", <<>>)
            /\ call' = CallFrame(name, args, args, "", "", 0, "", EmptyArgs)
            /\ UNCHANGED transports
       ELSE LET serverName == ParsedServer(name)
                toolName == ParsedTool(name)
                k == FindServer(servers, serverName)
            IN  IF k = 0
                THEN \* throw new Error(`No server connected for: ...`)
                     /\ ret' = Ret("callTool", "UnknownServer", <<>>)
                     /\ call' = CallFrame(name, args, args, serverName,
                                          toolName, 0, "", EmptyArgs)
                     /\ UNCHANGED transports
                ELSE LET tid == servers[k].tid
                         forwarded == RewriteArgs(serverName, toolName,
                                                  githubOrgs, args)
                     IN  /\ UNCHANGED transports
                         /\ call' = CallFrame(name, args,
                                              CallerArgs(args, forwarded),
                                              serverName, toolName, tid,
                                              toolName, forwarded)
                         /\ ret' = IF ok
                                   THEN Ret("callTool", "ok", <<>>)
                                   ELSE Ret("callTool", "ToolExecutionFailure",
                                            <<>>)
    /\ pc' = "returned"
    /\ UNCHANGED <<githubOrgs, servers, stderr, entries, idx>>

\* <<name, args>> a caller may pass: every qualified name over the inputs,
\* the search tool with every arguments object, and a name without separator
CallInputs ==
    { <<QualifiedName(s, r), [q |-> "bug"]>> : s \in CallServers, r \in RawNames }
        \cup { <<"github__search_issues", a>> : a \in ArgsSet }
        \cup { <<"github_search_issues", [q |-> "bug"]>> }

(***************************************************************************)
(* disconnect (lines 105-114), one step per suspension point               *)
(***************************************************************************)
\* the caller invokes disconnect()
Disconnect ==
    /\ pc = "idle"
    /\ idx' = 1
    /\ pc' = "disconnect_loop"
    /\ UNCHANGED <<githubOrgs, servers, transports, stderr, entries, call, ret>>

\* the empty catch block (lines 109-111): go on with the next server
DisconnectRethrow ==
    /\ pc' = "returned"
    /\ ret' = Ret("disconnect", "raised", <<>>)
    /\ UNCHANGED idx
DisconnectCatch ==
    /\ idx' = idx + 1
    /\ pc' = "disconnect_loop"
    /\ UNCHANGED ret

\* `await server.transport.close()` settles for servers[idx] (line 108)
DisconnectClose(ok) ==
    /\ pc = "disconnect_loop"
    /\ idx <= Len(servers)
    /\ LET tid == servers[idx].tid
       IN  transports' =
              [transports EXCEPT ![tid].closes = @ + 1,
                                 ![tid].state = IF ok THEN "closed" ELSE @]
    /\ IF ok
       THEN /\ idx' = idx + 1
            /\ pc' = "disconnect_loop"
            /\ UNCHANGED ret
       ELSE DisconnectCatch
    /\ UNCHANGED <<githubOrgs, servers, stderr, entries, call>>

\* the loop is exhausted: this.servers = [] and disconnect returns
DisconnectReturn ==
    /\ pc = "disconnect_loop"
    /\ idx > Len(servers)
    /\ servers' = <<>>
    /\ pc' = "returned"
    /\ ret' = Ret("disconnect", "ok", <<>>)
    /\ UNCHANGED <<githubOrgs, transports, stderr, entries, idx, call>>

(***************************************************************************)
(* The caller                                                              *)
(***************************************************************************)
\* the caller takes the outcome of the completed operation and goes on; the
\* operation's parameters and locals are gone
Resume ==
    /\ pc = "returned"
    /\ pc' = "idle"
    /\ entries' = <<>>
    /\ idx' = 0
    /\ call' = NoCall
    /\ ret' = Ret("none", "ok", <<>>)
    /\ UNCHANGED <<githubOrgs, servers, transports, stderr>>

(***************************************************************************)
(* Specification                                                           *)
(***************************************************************************)
Next ==
    \/ (\E es \in SeqsUpTo(ServerNames, MaxTransports) : Connect(es))
          /\ UNCHANGED runVars
    \/ ConnectStart /\ UNCHANGED runVars
    \/ (\E ok \in BOOLEAN : ConnectStarted(ok)) /\ UNCHANGED runVars
    \/ (\E ok \in BOOLEAN : ConnectListed(ok)) /\ UNCHANGED runVars
    \/ ConnectReturn /\ UNCHANGED runVars
    \/ GetAllTools /\ UNCHANGED runVars
    \/ (\E in \in CallInputs, ok \in BOOLEAN : CallTool(in[1], in[2], ok))
          /\ UNCHANGED runVars
    \/ Disconnect /\ UNCHANGED runVars
    \/ (\E ok \in BOOLEAN : DisconnectClose(ok)) /\ UNCHANGED runVars
    \/ DisconnectReturn /\ UNCHANGED runVars
    \/ Resume /\ UNCHANGED runVars

Spec == Init /\ [][Next]_vars

(***************************************************************************)
(* getEnabledServers (registry.ts lines 10-53)                             *)
(***************************************************************************)
\* a Config as far as the registry reads it: the enabled flags, and whether
\* the environment variable named by token_env is set
Config(github, githubToken, jira, slack, slackToken) ==
    [github |-> github, githubToken |-> githubToken, jira |-> jira,
     slack |-> slack, slackToken |-> slackToken]

Configs ==
    { Config(g, gt, j, s, st) : g \in BOOLEAN, gt \in BOOLEAN, j \in BOOLEAN,
                                s \in BOOLEAN, st \in BOOLEAN }

\* the two `throw new Error(...)` (lines 15-19 and 39-43)
RegistryThrows(config) ==
    \/ config.github /\ ~config.githubToken
    \/ config.slack /\ ~config.slackToken

\* the descriptors pushed, by name, in the order of the three `if`s
GetEnabledServers(config) ==
    (IF config.github THEN <<"github">> ELSE <<>>)
        \o (IF config.jira THEN <<"jira">> ELSE <<>>)
        \o (IF config.slack THEN <<"slack">> ELSE <<>>)

\* connect(getEnabledServers(config))
ConnectEnabled(config) ==
    /\ ~RegistryThrows(config)
    /\ Connect(GetEnabledServers(config))

\* the names getAllTools() returns
ListedNames == { AllTools(servers)[k].name : k \in DOMAIN AllTools(servers) }

NextRegistry ==
    \/ (\E config \in Configs : ConnectEnabled(config)) /\ UNCHANGED runVars
    \/ ConnectStart /\ UNCHANGED runVars
    \/ (\E ok \in BOOLEAN : ConnectStarted(ok)) /\ UNCHANGED runVars
    \/ (\E ok \in BOOLEAN : ConnectListed(ok)) /\ UNCHANGED runVars
    \/ ConnectReturn /\ UNCHANGED runVars
    \/ GetAllTools /\ UNCHANGED runVars
    \/ (\E name \in ListedNames, ok \in BOOLEAN :
            CallTool(name, [q |-> "bug"], ok)) /\ UNCHANGED runVars
    \/ Disconnect /\ UNCHANGED runVars
    \/ (\E ok \in BOOLEAN : DisconnectClose(ok)) /\ UNCHANGED runVars
    \/ DisconnectReturn /\ UNCHANGED runVars
    \/ Resume /\ UNCHANGED runVars

SpecRegistry == Init /\ [][NextRegistry]_vars

(***************************************************************************)
(* Properties                                                              *)
(***************************************************************************)
\* an operation has just completed and its outcome is in ret
Returned(op) == pc = "returned" /\ ret.op = op

\* the transport was started and its discovery round trip returned
Succeeded(t) == t.state \in {"open", "closed"} /\ t.listed = "ok"

\* C1: connect(entries) never raises, and when it returns every descriptor
\* has been attempted, in order, whatever happened to the ones before it:
\* the last Len(entries) transports are those of entries, none left unstarted.
ConnectNeverRaises ==
    /\ ret.op = "connect" => ret.status = "ok"
    /\ Returned("connect") =>
          /\ idx = Len(entries) + 1
          /\ Len(transports) >= Len(entries)
          /\ \A k \in 1..Len(entries) :
                LET t == transports[Len(transports) - Len(entries) + k]
                IN  t.name = entries[k] /\ t.state # "new"

\* C1 witness: connect returned after its first descriptor failed to start
\* and its second failed discovery, and the third was still connected.
ConnectAfterFailures ==
    /\ Returned("connect")
    /\ Len(entries) = 3 /\ Len(transports) = 3
    /\ transports[1].state = "failed"
    /\ transports[2].listed = "fail"
    /\ Succeeded(transports[3])

\* the <<name, transport>> pairs of the descriptors from position k on whose
\* start and discovery both succeeded, in descriptor order
RECURSIVE SucceededFrom(_)
SucceededFrom(k) ==
    IF k > Len(entries) THEN <<>>
    ELSE (IF Succeeded(transports[k]) THEN << <<entries[k], k>> >> ELSE <<>>)
             \o SucceededFrom(k + 1)

\* C2: after one connect on a fresh manager the connection set is exactly
\* the descriptors whose start and discovery both succeeded, in descriptor
\* order; a server whose discovery failed never has an entry.
ConnectedAreTheSucceeded ==
    /\ \A j \in 1..Len(servers) : transports[servers[j].tid].listed = "ok"
    /\ (Returned("connect") /\ Len(transports) = Len(entries)) =>
          [j \in 1..Len(servers) |-> <<servers[j].name, servers[j].tid>>]
              = SucceededFrom(1)

\* C2 witness: three descriptors, the second failed discovery, and exactly
\* the first and the third are connected.
SecondOfThreeFailedDiscovery ==
    /\ Returned("connect")
    /\ Len(entries) = 3 /\ Len(transports) = 3
    /\ transports[2].state = "open" /\ transports[2].listed = "fail"
    /\ Len(servers) = 2
    /\ servers[1].tid = 1 /\ servers[2].tid = 3

\* number of tools of the servers before position k
RECURSIVE ToolsBefore(_)
ToolsBefore(k) ==
    IF k <= 1 THEN 0 ELSE ToolsBefore(k - 1) + Len(servers[k - 1].tools)

\* the value getAllTools returned is the servers' catalogs one after the
\* other in connection order, each catalog in discovery order
IsConcatenation(v) ==
    /\ Len(v) = ToolsBefore(Len(servers) + 1)
    /\ \A k \in 1..Len(servers) :
          /\ Len(servers[k].tools) = Len(RawTools(servers[k].name))
          /\ \A j \in 1..Len(servers[k].tools) :
                /\ v[ToolsBefore(k) + j] = servers[k].tools[j]
                /\ v[ToolsBefore(k) + j].name =
                      servers[k].name \o "__" \o RawTools(servers[k].name)[j].name
    /\ ([k \in 1..Len(servers) |-> servers[k].name] = <<"github", "jira">> =>
          [k \in 1..Len(v) |-> v[k].name] =
              <<"github__search_issues", "github__create_issue",
                "jira__create_issue">>)

\* C3: getAllTools returns the concatenation of the connected servers'
\* catalogs in connection order, each in discovery order, and a getAllTools
\* step changes neither the connection set nor the transports.
GetAllToolsConcatenatesAndIsPure ==
    /\ [](Returned("getAllTools") => IsConcatenation(ret.value))
    /\ [][(pc = "idle" /\ pc' = "returned" /\ ret'.op = "getAllTools")
            => (servers' = servers /\ transports' = transports
                /\ githubOrgs' = githubOrgs)]_vars

\* C3 witness: A (2 tools) then B (1 tool) connected, and getAllTools
\* returned three tools.
GetAllToolsOfTwoServers ==
    /\ Returned("getAllTools")
    /\ Len(servers) = 2
    /\ servers[1].name = "github" /\ servers[2].name = "jira"
    /\ Len(ret.value) = 3

\* a callTool step of the caller
CallToolStep == pc = "idle" /\ pc' = "returned" /\ ret'.op = "callTool"

\* s ends in an underscore
EndsInUnderscore(s) == Len(s) > 0 /\ SubSeq(s, Len(s), Len(s)) = "_"

\* C4 as claimed: for every server name free of "__" and every raw name,
\* callTool splits serverName + "__" + rawName back into (serverName, rawName),
\* server names ending in "_" included.
SplitRecoversEveryPair ==
    Returned("callTool") =>
       \A s \in CallServers, r \in RawNames :
          (~Includes(s, "__") /\ call.name = s \o "__" \o r)
             => (call.serverName = s /\ call.toolName = r)

\* C4 amended: the same for every server name that neither contains "__"
\* nor ends in "_"; raw names may begin with "_" and contain "__".
SplitRecoversPair ==
    Returned("callTool") =>
       \A s \in CallServers, r \in RawNames :
          (~Includes(s, "__") /\ ~EndsInUnderscore(s)
              /\ call.name = s \o "__" \o r)
             => (call.serverName = s /\ call.toolName = r)

\* C4 witness: the qualified name of a raw tool that begins with "_" and
\* contains "__" was split and the raw name went to the github transport.
SplitOddRawName ==
    /\ Returned("callTool")
    /\ call.name = "github___x__y"
    /\ call.serverName = "github" /\ call.toolName = "_x__y"
    /\ call.tid # 0 /\ call.sentName = "_x__y"

\* C5: callTool with a name that holds no "__" fails with InvalidToolName,
\* sends nothing to any transport and leaves the connection set unchanged.
InvalidNameRejected ==
    [][(CallToolStep /\ ~Includes(call'.name, "__"))
         => (/\ ret'.status = "InvalidToolName"
             /\ call'.tid = 0
             /\ transports' = transports
             /\ servers' = servers)]_vars

\* C5 witness: a name without separator was rejected while github was
\* connected.
InvalidNameWhileConnected ==
    /\ Returned("callTool")
    /\ call.name = "github_search_issues"
    /\ ret.status = "InvalidToolName"
    /\ \E k \in 1..Len(servers) : servers[k].name = "github"

\* C6: callTool whose parsed server prefix names no live connection fails
\* with UnknownServer and sends nothing to any transport.
UnknownServerRejected ==
    [][(/\ CallToolStep
        /\ Includes(call'.name, "__")
        /\ ~\E k \in 1..Len(servers) : servers[k].name = call'.serverName)
         => (/\ ret'.status = "UnknownServer"
             /\ call'.tid = 0
             /\ transports' = transports
             /\ servers' = servers)]_vars

\* C6 witness: after disconnect (no server, no tool left) a call to github,
\* which had been connected and closed, fails with UnknownServer; a jira
\* server whose discovery failed is there as well.
UnknownServerAfterDisconnect ==
    /\ Returned("callTool")
    /\ call.name = "github__search_issues"
    /\ ret.status = "UnknownServer"
    /\ servers = <<>> /\ AllTools(servers) = <<>>
    /\ \E k \in 1..Len(transports) :
          /\ transports[k].name = "github"
          /\ Succeeded(transports[k]) /\ transports[k].closes = 1
    /\ \E k \in 1..Len(transports) :
          transports[k].name = "jira" /\ transports[k].listed = "fail"

\* one "org:<o>" qualifier per organization, in order, each followed by a
\* space, then the query
RECURSIVE ScopedQuery(_, _)
ScopedQuery(orgs, q) ==
    IF Len(orgs) = 0 THEN q
    ELSE "org:" \o Head(orgs) \o " " \o ScopedQuery(Tail(orgs), q)

\* a call that reached github/search_issues with organizations configured
\* and a query without scope qualifier
UnscopedSearch ==
    /\ Returned("callTool")
    /\ call.tid # 0
    /\ call.serverName = "github" /\ call.toolName = "search_issues"
    /\ Len(githubOrgs) > 0
    /\ "q" \in DOMAIN call.args
    /\ ~Includes(call.args["q"], "org:")

\* the query on the wire is the scoped query
SentScoped ==
    /\ call.sentName = "search_issues"
    /\ "q" \in DOMAIN call.sentArgs
    /\ call.sentArgs["q"] = ScopedQuery(githubOrgs, call.args["q"])
    /\ (githubOrgs = <<"acme", "west">> /\ call.args["q"] = "bug"
          => call.sentArgs["q"] = "org:acme org:west bug")

\* C7 as claimed: every unscoped query, the empty query included, is
\* forwarded with one qualifier per organization in front.
ScopesEveryUnscopedQuery == UnscopedSearch => SentScoped

\* C7 amended: every non-empty unscoped query is forwarded with one
\* qualifier per organization in front.
ScopesNonEmptyUnscopedQuery ==
    (UnscopedSearch /\ call.args["q"] # "") => SentScoped

\* C7 witness: scopes acme, west and query "bug" went out as
\* "org:acme org:west bug".
ScopedBugQuery ==
    /\ UnscopedSearch
    /\ githubOrgs = <<"acme", "west">>
    /\ call.args["q"] = "bug"
    /\ call.sentArgs["q"] = "org:acme org:west bug"

\* the rewrite rule applies to the call
RuleApplies ==
    /\ call.serverName = "github"
    /\ call.toolName = "search_issues"
    /\ Len(githubOrgs) > 0

\* C8: the rewrite is idempotent and leaves an already scoped query alone;
\* where the rule does not apply the arguments reach the transport as
\* passed; the raw tool name always does; the caller's own arguments object
\* is never modified.
RewriteIdempotentElseVerbatim ==
    Returned("callTool") =>
       /\ call.callerArgs = call.args
       /\ call.tid # 0 =>
             /\ RewriteArgs(call.serverName, call.sentName, githubOrgs,
                            call.sentArgs) = call.sentArgs
             /\ ("q" \in DOMAIN call.args /\ Includes(call.args["q"], "org:"))
                   => call.sentArgs = call.args
             /\ ~RuleApplies => call.sentArgs = call.args
             /\ call.name = call.serverName \o "__" \o call.sentName

\* C8 witness: a query was rewritten on the wire while the caller's object
\* still holds "bug".
RewrittenOnTheWireOnly ==
    /\ Returned("callTool")
    /\ call.tid # 0 /\ RuleApplies
    /\ call.args = [q |-> "bug", page |-> "2"]
    /\ call.callerArgs = call.args
    /\ call.sentArgs = [q |-> "org:acme org:west bug", page |-> "2"]

\* the transport is held by a connected server
Connected(tid) == \E j \in 1..Len(servers) : servers[j].tid = tid

\* C9: disconnect never raises and leaves the connection set empty; every
\* transport that was in the connection set and no longer is has had
\* exactly one close attempt, whether or not the close failed, and no
\* transport ever has more than one (a second disconnect closes nothing).
DisconnectClosesEachOnce ==
    /\ ret.op = "disconnect" => ret.status = "ok"
    /\ Returned("disconnect") => servers = <<>>
    /\ \A k \in 1..Len(transports) :
          /\ transports[k].closes <= 1
          /\ (transports[k].listed = "ok" /\ ~Connected(k))
                => transports[k].closes = 1
          /\ (pc # "disconnect_loop" /\ Connected(k))
                => transports[k].closes = 0
    /\ pc = "disconnect_loop" =>
          \A j \in 1..Len(servers) :
             transports[servers[j].tid].closes = (IF j < idx THEN 1 ELSE 0)

\* C9 witness: of three descriptors the second failed discovery; disconnect
\* returned after the first close failed and the third succeeded.
DisconnectAfterCloseFailure ==
    /\ Returned("disconnect")
    /\ Len(transports) = 3
    /\ transports[1].state = "open" /\ transports[1].closes = 1
    /\ transports[2].listed = "fail" /\ transports[2].closes = 0
    /\ transports[3].state = "closed" /\ transports[3].closes = 1
    /\ servers = <<>>

\* a raw tool name of no read type (search / read / list / get)
Mutating(rawName) ==
    /\ ~Includes(rawName, "search")
    /\ ~Includes(rawName, "read")
    /\ ~Includes(rawName, "list")
    /\ ~Includes(rawName, "get")

\* C10: callTool with the qualified name of a mutating tool of the issue
\* tracker, connected and listing that tool, fails with ToolNotPermitted
\* and sends nothing to the transport.
MutatingIssueTrackerToolRejected ==
    (/\ Returned("callTool")
     /\ call.serverName = "jira"
     /\ Mutating(call.toolName)
     /\ \E k \in 1..Len(servers) :
           /\ servers[k].name = "jira"
           /\ \E j \in 1..Len(servers[k].tools) :
                 servers[k].tools[j].name = call.name)
       => (ret.status = "ToolNotPermitted" /\ call.tid = 0)

(***************************************************************************)
(* Failed connection attempts                                              *)
(***************************************************************************)
\* the attempt for transport t failed: at `client.connect` or at `listTools`
FailedAttempt(t) == t.state = "failed" \/ t.listed = "fail"

\* C13: a server whose connection attempt failed, at transport start or at
\* tool discovery, leaves nothing behind: it is not in the connection set
\* and its transport is not open
FailedAttemptLeavesNothing ==
    \A k \in DOMAIN transports :
        FailedAttempt(transports[k]) =>
            /\ ~Connected(k)
            /\ transports[k].state # "open"

(***************************************************************************)
(* connect is sequential                                                   *)
(***************************************************************************)
Connecting == pc \in {"connect_loop", "connect_await_start", "connect_await_list"}
InFlight == pc \in {"connect_await_start", "connect_await_list"}

\* the attempt for transport t is over: the server was pushed to
\* this.servers (t.listed = "ok") or the catch block reported it
SettledAttempt(t) == t.listed = "ok" \/ FailedAttempt(t)

RECURSIVE CountKind(_, _)
CountKind(lines, kinds) ==
    IF lines = <<>> THEN 0
    ELSE (IF Head(lines).kind \in kinds THEN 1 ELSE 0)
         + CountKind(Tail(lines), kinds)

\* descriptors the running connect call has begun
Begun == IF InFlight THEN idx ELSE idx - 1

\* C15: connect handles the descriptors one at a time and in order: every
\* transport but the one in flight belongs to a settled attempt (pushed to
\* the connection set, or reported as failed on stderr), at most one
\* attempt is in flight, the running call has started entries[1..Begun] in
\* that order, and discovery is requested only on a transport whose
\* `client.connect` succeeded
ConnectIsSequential ==
    /\ \A k \in DOMAIN transports :
          \/ SettledAttempt(transports[k])
          \/ InFlight /\ k = Len(transports)
    /\ Len(transports) = CountKind(stderr, {"connecting"})
    /\ Len(transports) - CountKind(stderr, {"available", "failed"})
          = (IF InFlight THEN 1 ELSE 0)
    /\ Connecting =>
          /\ Begun <= Len(transports)
          /\ \A j \in 1..Begun :
                transports[Len(transports) - Begun + j].name = entries[j]
    /\ pc = "connect_await_list" =>
          /\ transports[Len(transports)].state = "open"
          /\ transports[Len(transports)].listed = "none"
    /\ \A k \in DOMAIN transports :
          transports[k].listed # "none" =>
              transports[k].state \in {"open", "closed"}

\* the third descriptor of one call is awaiting discovery after the first
\* was connected and the second was reported as failed
ThirdStartsAfterTwoSettled ==
    /\ pc = "connect_await_list"
    /\ idx = 3
    /\ Len(transports) = 3
    /\ transports[1].listed = "ok"
    /\ FailedAttempt(transports[2])
    /\ Len(servers) = 1

(***************************************************************************)
(* Qualified names                                                         *)
(***************************************************************************)
\* the k-th server of the connection set and its r-th tool
Listed(k, r) == servers[k].tools[r].name

\* qualified names are pairwise distinct, no connected server name contains
\* the separator, and a callTool of a listed name went to the transport of
\* the server that lists it, under the raw name that server gave
NamesIdentifyOnePair ==
    /\ \A i, j \in DOMAIN AllTools(servers) :
          i # j => AllTools(servers)[i].name # AllTools(servers)[j].name
    /\ \A k \in DOMAIN servers : ~Includes(servers[k].name, "__")
    /\ Returned("callTool") =>
          \A k \in DOMAIN servers : \A r \in DOMAIN servers[k].tools :
              call.name = Listed(k, r) =>
                  /\ call.tid = servers[k].tid
                  /\ call.sentName = RawTools(servers[k].name)[r].name

\* C16 as stated: in every state reachable through connect / callTool /
\* disconnect with descriptors produced by getEnabledServers, the qualified
\* names of getAllTools() are pairwise distinct, no connected server name
\* contains "__", and callTool routes each listed name to its server
QualifiedNamesAlwaysUnique == NamesIdentifyOnePair

\* no server name is in the connection set twice
DistinctServerNames ==
    \A i, j \in DOMAIN servers : i # j => servers[i].name # servers[j].name

\* C16, amended: the same, in the states in which no server name is in the
\* connection set twice (connect appends to this.servers without looking
\* for the name, so a second connect before disconnect can add it again)
QualifiedNamesUniqueWhenServersAre ==
    DistinctServerNames => NamesIdentifyOnePair

\* github and jira are connected, both list create_issue, and the call of
\* jira__create_issue went to jira's transport
SameRawNameOnTwoServers ==
    /\ Returned("callTool")
    /\ Len(servers) = 2
    /\ servers[1].name = "github"
    /\ servers[2].name = "jira"
    /\ call.name = "jira__create_issue"
    /\ call.tid = servers[2].tid
    /\ call.sentName = "create_issue"

(***************************************************************************)
(* The agent loop (runAgent, called at index.ts line 400)                  *)
(*                                                                         *)
(* States AWAITING_MODEL, EXECUTING_TOOLS, DONE, ABORTED_LIMIT; RAISED is  *)
(* the provider's fault propagating out of the loop.  IterationCounter     *)
(* numbers the iteration in progress: 1 during the first.                  *)
(***************************************************************************)
Fallback == "(no report)"

\* a message of the Conversation; id correlates a tool result with the
\* request it answers
Msg(role, content, requests, id, isError) ==
    [role |-> role, content |-> content, requests |-> requests, id |-> id,
     isError |-> isError]

Request(id, name) == [id |-> id, name |-> name, args |-> [q |-> "bug"]]

FinalText(text) == [tag |-> "FinalText", text |-> text, names |-> <<>>]
ToolUseTurn(text, names) == [tag |-> "ToolUseTurn", text |-> text, names |-> names]
ProviderFault == [tag |-> "fault", text |-> "", names |-> <<>>]

\* what one invocation of the provider may produce: a final text, a turn
\* with one request and no text, a turn with text and three requests of
\* which the first two cannot succeed, or a fault (provider unreachable)
ProviderResponses ==
    { FinalText("report"),
      ToolUseTurn("", <<"github__search_issues">>),
      ToolUseTurn("plan", <<"github_search_issues", "gitlab__list_issues",
                            "github__search_issues">>),
      ProviderFault }

\* the requests of the turn emitted in iteration i, in emission order
RequestsOf(i, names) == [k \in 1..Len(names) |-> Request(10 * i + k, names[k])]

\* the tool-result message of one call: a failure is ordinary content
ToolResult(id, status) == Msg("tool", status, <<>>, id, status # "ok")

\* the requests still to execute after one call resolved with status
RemainingUnlessFailed(pending, status) ==
    IF status = "ok" THEN Tail(pending) ELSE <<>>
Remaining(pending, status) == Tail(pending)

\* the bound check before looping back: incrementing would exceed N
LimitReachedLate(iteration) == iteration > MaxIterations
LimitReached(iteration) == iteration + 1 > MaxIterations

AgentStart ==
    [state |-> "AWAITING_MODEL", iteration |-> 1,
     conversation |-> << Msg("user", "userMessage", <<>>, 0, FALSE) >>,
     pending |-> <<>>, lastText |-> "", result |-> "", reason |-> ""]

\* AWAITING_MODEL: invoke the provider once
AgentInvoke(resp) ==
    /\ run.pc = "agent"
    /\ agent.state = "AWAITING_MODEL"
    /\ pc = "idle"
    /\ agent' =
          CASE resp.tag = "FinalText" ->
                 [agent EXCEPT
                    !.state = "DONE",
                    !.conversation =
                        Append(@, Msg("assistant", resp.text, <<>>, 0, FALSE)),
                    !.result = resp.text,
                    !.reason = "completed"]
            [] resp.tag = "ToolUseTurn" ->
                 [agent EXCEPT
                    !.state = "EXECUTING_TOOLS",
                    !.conversation =
                        Append(@, Msg("assistant", resp.text,
                                      RequestsOf(agent.iteration, resp.names),
                                      0, FALSE)),
                    !.pending = RequestsOf(agent.iteration, resp.names),
                    !.lastText = IF resp.text # "" THEN resp.text ELSE @]
            [] OTHER -> [agent EXCEPT !.state = "RAISED"]
    /\ UNCHANGED <<mgrVars, run>>

\* EXECUTING_TOOLS: the next request, in emission order, goes to
\* Manager.callTool, which is where a request is accepted or rejected
AgentCall(ok) ==
    /\ run.pc = "agent"
    /\ agent.state = "EXECUTING_TOOLS"
    /\ agent.pending # <<>>
    /\ CallTool(Head(agent.pending).name, Head(agent.pending).args, ok)
    /\ UNCHANGED runVars

\* callTool settled: its outcome becomes the correlated tool result
AgentResult ==
    /\ run.pc = "agent"
    /\ agent.state = "EXECUTING_TOOLS"
    /\ Returned("callTool")
    /\ agent' =
          [agent EXCEPT
             !.conversation =
                 Append(@, ToolResult(Head(agent.pending).id, ret.status)),
             !.pending = Remaining(agent.pending, ret.status)]
    /\ Resume
    /\ UNCHANGED run

\* all calls of the turn resolved: bound check, then loop back
AgentTurnEnd ==
    /\ run.pc = "agent"
    /\ agent.state = "EXECUTING_TOOLS"
    /\ pc = "idle"
    /\ agent.pending = <<>>
    /\ agent' =
          IF LimitReached(agent.iteration)
          THEN [agent EXCEPT
                  !.state = "ABORTED_LIMIT",
                  !.result = IF agent.lastText # "" THEN agent.lastText
                             ELSE Fallback,
                  !.reason = "iterationLimit"]
          ELSE [agent EXCEPT
                  !.state = "AWAITING_MODEL",
                  !.iteration = @ + 1]
    /\ UNCHANGED <<mgrVars, run>>

(***************************************************************************)
(* cmdRun (index.ts lines 356-413)                                         *)
(***************************************************************************)
InitRun ==
    /\ githubOrgs \in OrgLists
    /\ servers = <<>>
    /\ transports = <<>>
    /\ stderr = <<>>
    /\ pc = "idle"
    /\ entries = <<>>
    /\ idx = 0
    /\ call = NoCall
    /\ ret = Ret("none", "ok", <<>>)
    /\ run \in { [NoRun EXCEPT !.pc = "start", !.config = config] :
                    config \in Configs }
    /\ agent = NoAgent

\* lines 357-373: the config file, getEnabledServers, new MCPClientManager
RunStart(exists) ==
    /\ run.pc = "start"
    /\ run' =
          IF ~exists THEN [run EXCEPT !.pc = "exited"]
          ELSE IF RegistryThrows(run.config)
          THEN [run EXCEPT !.pc = "failed", !.fault = TRUE]
          ELSE IF Len(GetEnabledServers(run.config)) = 0
          THEN [run EXCEPT !.pc = "exited"]
          ELSE [run EXCEPT !.pc = "connect"]
    /\ UNCHANGED <<mgrVars, agent>>

\* line 376: await mcpClient.connect(servers)
RunConnect ==
    /\ run.pc = "connect"
    /\ ConnectEnabled(run.config)
    /\ run' = [run EXCEPT !.pc = "connecting", !.connects = @ + 1]
    /\ UNCHANGED agent

\* connect returned; line 378: mcpClient.getAllTools()
RunConnected ==
    /\ run.pc = "connecting"
    /\ Returned("connect")
    /\ Resume
    /\ run' = [run EXCEPT !.pc = "tools"]
    /\ UNCHANGED agent

RunGetAllTools ==
    /\ run.pc = "tools"
    /\ GetAllTools
    /\ run' = [run EXCEPT !.pc = "check"]
    /\ UNCHANGED agent

\* lines 379-391: process.exit(1) on an empty catalog ends the process
\* inside the try block, the finally block does not run; a dry run returns
RunCheckTools(isDry) ==
    /\ run.pc = "check"
    /\ Returned("getAllTools")
    /\ Resume
    /\ run' =
          IF Len(ret.value) = 0 THEN [run EXCEPT !.pc = "exited"]
          ELSE IF isDry THEN [run EXCEPT !.pc = "finally"]
          ELSE [run EXCEPT !.pc = "prompt"]
    /\ UNCHANGED agent

\* lines 394-400: loadPastReports, buildSystemPrompt, buildUserMessage read
\* the report directory and may throw; then runAgent is entered
RunPrompt(ok) ==
    /\ run.pc = "prompt"
    /\ IF ok
       THEN /\ run' = [run EXCEPT !.pc = "agent"]
            /\ agent' = AgentStart
       ELSE /\ run' = [run EXCEPT !.pc = "finally", !.fault = TRUE]
            /\ UNCHANGED agent
    /\ UNCHANGED mgrVars

\* line 400: runAgent settles, with the report or with the provider's fault
RunAgentReturn ==
    /\ run.pc = "agent"
    /\ agent.state \in {"DONE", "ABORTED_LIMIT", "RAISED"}
    /\ run' =
          IF agent.state = "RAISED"
          THEN [run EXCEPT !.pc = "finally", !.fault = TRUE]
          ELSE [run EXCEPT !.pc = "save", !.report = agent.result,
                           !.reason = agent.reason]
    /\ agent' = NoAgent
    /\ UNCHANGED mgrVars

\* lines 403-409: print the report, save it unless --no-save
RunSave(noSave, ok) ==
    /\ run.pc = "save"
    /\ run' =
          IF noSave \/ ok THEN [run EXCEPT !.pc = "finally"]
          ELSE [run EXCEPT !.pc = "finally", !.fault = TRUE]
    /\ UNCHANGED <<mgrVars, agent>>

\* lines 410-412: finally { await mcpClient.disconnect() }
RunFinally ==
    /\ run.pc = "finally"
    /\ Disconnect
    /\ run' = [run EXCEPT !.pc = "disconnecting", !.disconnects = @ + 1]
    /\ UNCHANGED agent

\* disconnect returned: cmdRun returns, or rethrows the pending fault
RunEnd ==
    /\ run.pc = "disconnecting"
    /\ Returned("disconnect")
    /\ Resume
    /\ run' = [run EXCEPT !.pc = IF run.fault THEN "failed" ELSE "done"]
    /\ UNCHANGED agent

NextRun ==
    \/ \E exists \in BOOLEAN : RunStart(exists)
    \/ RunConnect
    \/ ConnectStart /\ UNCHANGED runVars
    \/ (\E ok \in BOOLEAN : ConnectStarted(ok)) /\ UNCHANGED runVars
    \/ (\E ok \in BOOLEAN : ConnectListed(ok)) /\ UNCHANGED runVars
    \/ ConnectReturn /\ UNCHANGED runVars
    \/ RunConnected
    \/ RunGetAllTools
    \/ \E isDry \in BOOLEAN : RunCheckTools(isDry)
    \/ \E ok \in BOOLEAN : RunPrompt(ok)
    \/ \E resp \in ProviderResponses : AgentInvoke(resp)
    \/ \E ok \in BOOLEAN : AgentCall(ok)
    \/ AgentResult
    \/ AgentTurnEnd
    \/ RunAgentReturn
    \/ \E noSave \in BOOLEAN, ok \in BOOLEAN : RunSave(noSave, ok)
    \/ RunFinally
    \/ (\E ok \in BOOLEAN : DisconnectClose(ok)) /\ UNCHANGED runVars
    \/ DisconnectReturn /\ UNCHANGED runVars
    \/ RunEnd

SpecRun == InitRun /\ [][NextRun]_vars

\* the run goes on whenever it can: every call it awaits settles
SpecRunFair == SpecRun /\ WF_vars(NextRun)

RunTerminal == run.pc \in {"done", "failed", "exited"}

\* C14: cmdRun invokes connect and disconnect exactly once each, and
\* disconnect follows connect on every way out of a run that began connect:
\* normal completion, dry run, the exit on an empty catalog, and a fault
\* from prompt building, the agent loop or saving
DisconnectFollowsConnect ==
    /\ run.connects <= 1
    /\ run.disconnects <= run.connects
    /\ (RunTerminal /\ run.connects = 1) => run.disconnects = 1

(***************************************************************************)
(* Agent loop properties                                                   *)
(***************************************************************************)
Conversation == agent.conversation

AssistantAt == { i \in DOMAIN Conversation : Conversation[i].role = "assistant" }

\* the text of the last assistant message that has one, "" if none has
LastAssistantText ==
    LET withText == { i \in AssistantAt : Conversation[i].content # "" }
    IN  IF withText = {} THEN ""
        ELSE Conversation[CHOOSE i \in withText :
                              \A j \in withText : j <= i].content

AgentEnded == agent.state \in {"DONE", "ABORTED_LIMIT", "RAISED"}

\* C11: the IterationCounter never exceeds N and counts the provider
\* invocations; a loop that ends in ABORTED_LIMIT got a ToolUseTurn from
\* every one of exactly N invocations and returns the last assistant text,
\* or the fallback if there is none; a loop that ends in DONE returns the
\* final text verbatim, after exactly 1 iteration if the first response was
\* the final text; and every loop that awaits the provider ends (DONE,
\* ABORTED_LIMIT, or the provider's fault) as long as the run goes on
AgentLoopEndsWithinBound ==
    /\ [](agent.state # "none" => agent.iteration \in 1..MaxIterations)
    /\ [](agent.state \in {"EXECUTING_TOOLS", "DONE", "ABORTED_LIMIT"} =>
             Cardinality(AssistantAt) = agent.iteration)
    /\ [](agent.state \in {"AWAITING_MODEL", "RAISED"} =>
             Cardinality(AssistantAt) = agent.iteration - 1)
    /\ [](agent.state = "ABORTED_LIMIT" =>
             /\ agent.iteration = MaxIterations
             /\ \A i \in AssistantAt : Conversation[i].requests # <<>>
             /\ agent.result = (IF LastAssistantText # "" THEN LastAssistantText
                                ELSE Fallback)
             /\ agent.reason = "iterationLimit")
    /\ [](agent.state = "DONE" =>
             /\ Conversation[Len(Conversation)].role = "assistant"
             /\ Conversation[Len(Conversation)].requests = <<>>
             /\ agent.result = Conversation[Len(Conversation)].content
             /\ agent.reason = "completed"
             /\ (Len(Conversation) = 2 => agent.iteration = 1))
    /\ (agent.state = "AWAITING_MODEL" ~> AgentEnded)

\* the loop hit the bound after N turns: the last turn had no text, the
\* returned text is the one of an earlier turn
AbortedWithEarlierText ==
    /\ agent.state = "ABORTED_LIMIT"
    /\ agent.iteration = MaxIterations
    /\ agent.result = "plan"
    /\ Conversation[CHOOSE i \in AssistantAt :
                        \A j \in AssistantAt : j <= i].content = ""

\* the assistant message that follows position i, or the end
NextAssistant(i) ==
    LET later == { j \in AssistantAt : j > i }
    IN  IF later = {} THEN Len(Conversation) + 1
        ELSE CHOOSE j \in later : \A h \in later : j <= h

\* the outcomes callTool can give a request of this name
OutcomesOf(name) ==
    IF InvalidName(name) THEN {"InvalidToolName"}
    ELSE IF FindServer(servers, ParsedServer(name)) = 0 THEN {"UnknownServer"}
    ELSE {"ok", "ToolExecutionFailure"}

\* the requests of the turn at position i are answered, in order, by the
\* messages that follow it up to the next assistant message
AnsweredInOrder(i) ==
    LET requests == Conversation[i].requests
        answered == NextAssistant(i) - i - 1
        running  == agent.state = "EXECUTING_TOOLS"
                        /\ NextAssistant(i) > Len(Conversation)
    IN  /\ answered <= Len(requests)
        /\ \A j \in 1..answered :
              /\ Conversation[i + j].role = "tool"
              /\ Conversation[i + j].id = requests[j].id
              /\ Conversation[i + j].content \in OutcomesOf(requests[j].name)
              /\ Conversation[i + j].isError = (Conversation[i + j].content # "ok")
        /\ \A j, h \in 1..Len(requests) : j # h => requests[j].id # requests[h].id
        /\ IF running
           THEN agent.pending = SubSeq(requests, answered + 1, Len(requests))
           ELSE answered = Len(requests)

====
